---- MODULE Spec2Model ----
(***************************************************************************)
(* Parametric Guitar: Fretboard Maker -- the add-in's palette protocol.    *)
(*                                                                         *)
(* The model covers the add-in entry point (run/stop), the toolbar         *)
(* command, the palette message dispatcher and its handlers, the two       *)
(* deferred custom-event handlers, the parameter bridge and the timeline   *)
(* manager.  The host (documents, user parameters, timeline objects, the   *)
(* palette, the custom-event queue) is modelled as far as the add-in       *)
(* reads or writes it.                                                     *)
(*                                                                         *)
(* Conventions: an optional value (Python None or a value) is a sequence   *)
(* of length 0 or 1; a string that the code inspects character by          *)
(* character (a parameter expression) is a sequence of one-character       *)
(* strings.                                                                *)
(***************************************************************************)
EXTENDS Integers, Sequences, FiniteSets, TLC

VARIABLES
    addinRunning,              \* the host has loaded the add-in (run or start returned)
    commandDefinition,         \* ui.commandDefinitions holds CMD_ID
    commandControl,            \* the toolbar panel holds the command's control
    documentActivatedHandler,  \* on_document_activated is attached to app.documentActivated
    applyEventRegistered,      \* custom event _APPLY_EVENT_ID is registered
    timelineEventRegistered,   \* custom event _TIMELINE_EVENT_ID is registered
    applyFired,                \* fired, not yet delivered applyParams events
    timelineFired,             \* fired, not yet delivered timelineOp events
    palette,                   \* "none" | "visible" | "hidden"
    _pending_payload,          \* entry.py:64
    _pending_apply,            \* entry.py:20
    _pending_timeline_op,      \* entry.py:24
    _owner_document,           \* entry.py:65
    documents,                 \* the open documents
    activeDoc,                 \* the active document
    userParameters,            \* per document: design.userParameters, in host order
    isSuppressed,              \* per document: the isSuppressed flag of each timeline object
    schemaFile,                \* parameters.schema.json is present and valid
    templateFile,              \* templates/fretboard_imperial.f3d is present
    userTemplates,             \* USER_TEMPLATES_DIR: file name -> stored template
    outsideFiles,              \* the paths of the files outside USER_TEMPLATES_DIR
    handler,                   \* the entry point or handler the host ran last
    sent,                      \* palette.sendInfoToHTML calls of that run, in order
    msgBox,                    \* the message box that run showed ("none" if none)
    applyResult,               \* what apply_parameters returned in that run (None if not called)
    timelineAccepted,          \* APPLY_TIMELINE_CHANGES messages queued so far
    timelineResults            \* TIMELINE_OPERATION_RESULT messages sent so far

vars == <<addinRunning, commandDefinition, commandControl, documentActivatedHandler,
          applyEventRegistered, timelineEventRegistered, applyFired, timelineFired,
          palette, _pending_payload, _pending_apply, _pending_timeline_op,
          _owner_document, documents, activeDoc, userParameters, isSuppressed,
          schemaFile, templateFile, userTemplates, outsideFiles, handler, sent, msgBox,
          applyResult, timelineAccepted, timelineResults>>

hostVars == <<documents, activeDoc, userParameters, isSuppressed, schemaFile, templateFile,
              userTemplates, outsideFiles>>
regVars == <<addinRunning, commandDefinition, commandControl, documentActivatedHandler,
             applyEventRegistered, timelineEventRegistered>>

(***************************************************************************)
(* Bounds of the exploration.                                              *)
(***************************************************************************)
\* undelivered custom events of one kind
MaxFired == 2
\* documents created by importing the template
MaxImports == 1
\* APPLY_TIMELINE_CHANGES messages counted
MaxTimelineMsgs == 2
\* files in the user templates folder
MaxUserTemplates == 3

(***************************************************************************)
(* Strings.                                                                *)
(***************************************************************************)
None == <<>>
Some(v) == <<v>>

E1 == <<"1">>
E2 == <<"2">>
E3 == <<"3">>
Padded3 == <<" ", "3", " ">>
Blank == <<" ">>
Formula == <<"p", "*", "2">>

RECURSIVE LStrip(_)
LStrip(s) == IF s /= <<>> /\ Head(s) = " " THEN LStrip(Tail(s)) ELSE s

RECURSIVE RStrip(_)
RStrip(s) == IF s /= <<>> /\ s[Len(s)] = " " THEN RStrip(SubSeq(s, 1, Len(s) - 1)) ELSE s

\* str.strip()
Strip(s) == RStrip(LStrip(s))

(***************************************************************************)
(* The parameter schema (schema/parameters.schema.json): groups of named   *)
(* parameters with default expressions; "editable" defaults to true.       *)
(***************************************************************************)
FINGERPRINT_PARAM == "FretboardFingerPrint"
FINGERPRINT_VALUE == <<"'", "F", "'">>

Schema ==
    [schemaVersion |-> "0.3.0",
     groups |-> <<
        [id |-> "g1", order |-> 2, parameters |-> <<
            [name |-> "p1", editable |-> TRUE, default |-> E1],
            [name |-> "f1", editable |-> FALSE, default |-> Formula] >>],
        [id |-> "g2", order |-> 1, parameters |-> <<
            [name |-> "p2", editable |-> TRUE, default |-> E2] >>] >>]

\* load_schema(): the parsed schema, or None when the file is missing or invalid
load_schema(file) == IF file THEN Some(Schema) ELSE None

RECURSIVE SchemaParams(_)
\* the parameter definitions of all groups, in schema order
SchemaParams(groups) ==
    IF groups = <<>> THEN <<>>
    ELSE Head(groups).parameters \o SchemaParams(Tail(groups))

\* _get_editable_names(): the editable parameter names of the schema
_get_editable_names(file) ==
    IF load_schema(file) = None THEN {}
    ELSE LET ps == SchemaParams(load_schema(file)[1].groups)
         IN  {ps[i].name : i \in {j \in DOMAIN ps : ps[j].editable}}

\* list.sort(key=order) is stable: g goes after the entries of the same order
RECURSIVE InsertByOrder(_, _)
InsertByOrder(g, sorted) ==
    IF sorted = <<>> THEN <<g>>
    ELSE IF g.order < Head(sorted).order THEN <<g>> \o sorted
    ELSE <<Head(sorted)>> \o InsertByOrder(g, Tail(sorted))

RECURSIVE SortByOrder(_)
SortByOrder(groups) ==
    IF groups = <<>> THEN <<>>
    ELSE LET n == Len(groups)
         IN  InsertByOrder(groups[n], SortByOrder(SubSeq(groups, 1, n - 1)))

(***************************************************************************)
(* design.userParameters: a sequence of [name, expression] in host order.  *)
(***************************************************************************)
\* userParameters.itemByName(name): the index of the parameter, 0 when absent
itemByName(params, name) ==
    IF \E i \in DOMAIN params : params[i].name = name
    THEN CHOOSE i \in DOMAIN params :
            /\ params[i].name = name
            /\ \A j \in 1..(i - 1) : params[j].name /= name
    ELSE 0

ParamNames(params) == {params[i].name : i \in DOMAIN params}

\* the expression the host rejects when assigned (param.expression = ... raises)
BadExpr == <<"?">>

\* get_fingerprint(design)
get_fingerprint(params) ==
    IF itemByName(params, FINGERPRINT_PARAM) /= 0
    THEN Some(params[itemByName(params, FINGERPRINT_PARAM)].expression)
    ELSE None

\* a design left without the fingerprint parameter
without_fingerprint(params) == params

\* set_fingerprint(design)
set_fingerprint(params) ==
    IF itemByName(params, FINGERPRINT_PARAM) /= 0 THEN params
    ELSE Append(params, [name |-> FINGERPRINT_PARAM, expression |-> FINGERPRINT_VALUE])

\* the entries build_schema_payload puts in a group: editable parameters, defaults
RECURSIVE SchemaEntries(_)
SchemaEntries(defs) ==
    IF defs = <<>> THEN <<>>
    ELSE IF ~Head(defs).editable THEN SchemaEntries(Tail(defs))
    ELSE <<[name |-> Head(defs).name, default |-> Head(defs).default,
            expression |-> Head(defs).default]>> \o SchemaEntries(Tail(defs))

RECURSIVE SchemaGroups(_)
SchemaGroups(groups) ==
    IF groups = <<>> THEN <<>>
    ELSE <<[id |-> Head(groups).id, order |-> Head(groups).order,
            parameters |-> SchemaEntries(Head(groups).parameters)]>>
         \o SchemaGroups(Tail(groups))

\* build_schema_payload(design)
build_schema_payload(file) ==
    IF load_schema(file) = None THEN None
    ELSE Some([mode |-> "initial",
               groups |-> SortByOrder(SchemaGroups(load_schema(file)[1].groups)),
               missing |-> <<>>,
               extra |-> <<>>,
               fingerprint |-> None])

\* the entries build_ui_payload puts in a group: editable parameters found in the design
RECURSIVE LiveEntries(_, _)
LiveEntries(defs, params) ==
    IF defs = <<>> THEN <<>>
    ELSE IF ~Head(defs).editable \/ itemByName(params, Head(defs).name) = 0
         THEN LiveEntries(Tail(defs), params)
    ELSE <<[name |-> Head(defs).name, default |-> Head(defs).default,
            expression |-> params[itemByName(params, Head(defs).name)].expression]>>
         \o LiveEntries(Tail(defs), params)

RECURSIVE LiveGroups(_, _)
LiveGroups(groups, params) ==
    IF groups = <<>> THEN <<>>
    ELSE <<[id |-> Head(groups).id, order |-> Head(groups).order,
            parameters |-> LiveEntries(Head(groups).parameters, params)]>>
         \o LiveGroups(Tail(groups), params)

\* build_ui_payload: 'missing', appended while the groups are walked
RECURSIVE MissingNames(_, _)
MissingNames(defs, params) ==
    IF defs = <<>> THEN <<>>
    ELSE IF Head(defs).editable /\ itemByName(params, Head(defs).name) = 0
         THEN <<Head(defs).name>> \o MissingNames(Tail(defs), params)
    ELSE MissingNames(Tail(defs), params)

\* build_ui_payload: 'extra', the design's names that are neither in the schema
\* nor the fingerprint, in design order
RECURSIVE ExtraNames(_, _)
ExtraNames(params, schemaNames) ==
    IF params = <<>> THEN <<>>
    ELSE IF Head(params).name \notin schemaNames /\ Head(params).name /= FINGERPRINT_PARAM
         THEN <<Head(params).name>> \o ExtraNames(Tail(params), schemaNames)
    ELSE ExtraNames(Tail(params), schemaNames)

\* build_ui_payload(design)
build_ui_payload(file, params) ==
    IF load_schema(file) = None THEN None
    ELSE LET groups == load_schema(file)[1].groups
             defs == SchemaParams(groups)
         IN  Some([mode |-> "live",
                   groups |-> SortByOrder(LiveGroups(groups, params)),
                   missing |-> MissingNames(defs, params),
                   extra |-> ExtraNames(params, {defs[i].name : i \in DOMAIN defs}),
                   fingerprint |-> get_fingerprint(params)])

\* an apply step without the check against the editable names
ApplyEntryUnprotected(acc, entry, allowed) ==
    LET new_expr == Strip(entry.expression)
        idx == itemByName(acc.params, entry.name)
    IN  IF new_expr = <<>> THEN acc
        ELSE IF idx = 0
             THEN [acc EXCEPT !.errors = Append(@, <<"not found", entry.name>>)]
        ELSE IF new_expr = acc.params[idx].expression THEN acc
        ELSE IF new_expr = BadExpr
             THEN [acc EXCEPT !.errors = Append(@, <<"failed", entry.name>>)]
        ELSE [acc EXCEPT !.params[idx].expression = new_expr, !.updated = @ + 1]

\* an apply step that reports no name it does not find in the design
ApplyEntrySilent(acc, entry, allowed) ==
    LET new_expr == Strip(entry.expression)
        idx == itemByName(acc.params, entry.name)
    IN  IF new_expr = <<>> THEN acc
        ELSE IF entry.name \notin allowed THEN acc
        ELSE IF idx = 0 THEN acc
        ELSE IF new_expr = acc.params[idx].expression THEN acc
        ELSE IF new_expr = BadExpr
             THEN [acc EXCEPT !.errors = Append(@, <<"failed", entry.name>>)]
        ELSE [acc EXCEPT !.params[idx].expression = new_expr, !.updated = @ + 1]

\* apply_parameters, one entry of param_values applied to acc = [params, updated, errors]
ApplyEntry(acc, entry, allowed) ==
    LET new_expr == Strip(entry.expression)
        idx == itemByName(acc.params, entry.name)
    IN  IF new_expr = <<>> THEN acc
        ELSE IF entry.name \notin allowed THEN acc
        ELSE IF idx = 0
             THEN [acc EXCEPT !.errors = Append(@, <<"not found", entry.name>>)]
        ELSE IF new_expr = acc.params[idx].expression THEN acc
        ELSE IF new_expr = BadExpr
             THEN [acc EXCEPT !.errors = Append(@, <<"failed", entry.name>>)]
        ELSE [acc EXCEPT !.params[idx].expression = new_expr, !.updated = @ + 1]

RECURSIVE ApplyEntries(_, _, _)
ApplyEntries(acc, param_values, allowed) ==
    IF param_values = <<>> THEN acc
    ELSE ApplyEntries(ApplyEntry(acc, Head(param_values), allowed),
                      Tail(param_values), allowed)

\* apply_parameters(design, param_values): [params, updated, errors]
apply_parameters(file, params, param_values) ==
    IF _get_editable_names(file) = {}
    THEN [params |-> params, updated |-> 0, errors |-> <<<<"schema", "">>>>]
    ELSE IF param_values = <<>>
    THEN [params |-> params, updated |-> 0, errors |-> <<>>]
    ELSE ApplyEntries([params |-> params, updated |-> 0, errors |-> <<>>],
                      param_values, _get_editable_names(file))

(***************************************************************************)
(* design.timeline: a sequence of timeline objects; isSuppressed holds the *)
(* flag of each by position.  An object with rejects = TRUE is one whose   *)
(* flag the host refuses to change (the assignment raises).                *)
(***************************************************************************)
Timeline ==
    << [name |-> "A", isGroup |-> FALSE, group |-> "",  rejects |-> FALSE],
       [name |-> "G", isGroup |-> TRUE,  group |-> "",  rejects |-> FALSE],
       [name |-> "B", isGroup |-> FALSE, group |-> "G", rejects |-> FALSE],
       [name |-> "L", isGroup |-> FALSE, group |-> "",  rejects |-> TRUE],
       [name |-> "M", isGroup |-> FALSE, group |-> "G", rejects |-> TRUE] >>

\* Timeline.itemByName(name): the index of the first object of that name, 0 when none
timelineItemByName(tl, name) ==
    IF \E i \in DOMAIN tl : tl[i].name = name
    THEN CHOOSE i \in DOMAIN tl :
            /\ tl[i].name = name
            /\ \A j \in 1..(i - 1) : tl[j].name /= name
    ELSE 0

\* find_item_by_name(design, name, exact=True): itemByName, then the scan of
\* get_all_items for the first entry of that name; 0 when not found
find_item_by_name(tl, name) ==
    IF timelineItemByName(tl, name) /= 0 THEN timelineItemByName(tl, name)
    ELSE IF \E i \in DOMAIN tl : tl[i].name = name
    THEN CHOOSE i \in DOMAIN tl :
            /\ tl[i].name = name
            /\ \A j \in 1..(i - 1) : tl[j].name /= name
    ELSE 0

\* _set_suppressed(timeline_obj, suppressed): [raised, flags]
_set_suppressed(tl, flags, idx, suppressed) ==
    IF tl[idx].rejects THEN [raised |-> TRUE, flags |-> flags]
    ELSE [raised |-> FALSE, flags |-> [flags EXCEPT ![idx] = suppressed]]

\* suppress_item / unsuppress_item(design, name): [success, flags]
suppress_item(tl, flags, name, suppressed) ==
    LET idx == find_item_by_name(tl, name)
    IN  IF idx = 0 THEN [success |-> FALSE, flags |-> flags]
        ELSE LET r == _set_suppressed(tl, flags, idx, suppressed)
             IN  [success |-> ~r.raised, flags |-> r.flags]

\* get_group_items(design, group_name): the positions of the members of the first
\* group object of that name, in timeline order
get_group_items(tl, group_name) ==
    IF \E i \in DOMAIN tl : tl[i].isGroup /\ tl[i].name = group_name
    THEN {i \in DOMAIN tl : tl[i].group = group_name}
    ELSE {}

\* suppress_group_contents / unsuppress_group_contents: every member is set, a
\* member the host rejects is skipped
suppress_group_contents(tl, flags, group_name, suppressed) ==
    [i \in DOMAIN flags |->
        IF i \in get_group_items(tl, group_name) /\ ~tl[i].rejects
        THEN suppressed ELSE flags[i]]

\* suppress_group_with_contents / unsuppress_group_with_contents: [success, flags]
suppress_group_with_contents(tl, flags, group_name, suppressed) ==
    LET r == suppress_item(tl, flags, group_name, suppressed)
    IN  IF ~r.success THEN r
        ELSE [success |-> TRUE,
              flags |-> suppress_group_contents(tl, r.flags, group_name, suppressed)]

\* the bridge call the batch loop makes for one change; the bridge functions return
\* a dict with 'success' and never raise
BridgeCall(tl, flags, change) ==
    IF change.type = "Group"
    THEN suppress_group_with_contents(tl, flags, change.name, change.suppressed)
    ELSE suppress_item(tl, flags, change.name, change.suppressed)

\* one iteration of the loop of _deferred_timeline_handler on
\* acc = [flags, success_count, failed]: the returned dict is not inspected, the
\* change counts as a success unless the call raised
TimelineChange(tl, acc, change) ==
    LET r == BridgeCall(tl, acc.flags, change)
    IN  [flags |-> r.flags, success_count |-> acc.success_count + 1, failed |-> acc.failed]

\* a batch loop that gives up at the first change that does not succeed
RECURSIVE TimelineBatchStopsAtFailure(_, _, _)
TimelineBatchStopsAtFailure(tl, acc, changes) ==
    IF changes = <<>> THEN acc
    ELSE IF ~BridgeCall(tl, acc.flags, Head(changes)).success
    THEN [acc EXCEPT !.failed = Append(@, Head(changes).name)]
    ELSE TimelineBatchStopsAtFailure(tl, TimelineChange(tl, acc, Head(changes)),
                                     Tail(changes))

RECURSIVE TimelineBatch(_, _, _)
TimelineBatch(tl, acc, changes) ==
    IF changes = <<>> THEN acc
    ELSE TimelineBatch(tl, TimelineChange(tl, acc, Head(changes)), Tail(changes))

\* get_timeline_items(design), without the children lists
get_timeline_items(tl, flags) ==
    [i \in DOMAIN tl |->
        [name |-> tl[i].name, type |-> IF tl[i].isGroup THEN "Group" ELSE "Feature",
         suppressed |-> flags[i], index |-> i - 1]]

\* get_timeline_summary(design)
get_timeline_summary(tl, flags) ==
    [total_items |-> Len(tl),
     active_count |-> Cardinality({i \in DOMAIN tl : ~flags[i]}),
     suppressed_count |-> Cardinality({i \in DOMAIN tl : flags[i]}),
     group_count |-> Cardinality({i \in DOMAIN tl : tl[i].isGroup}),
     feature_count |-> Cardinality({i \in DOMAIN tl : ~tl[i].isGroup})]

(***************************************************************************)
(* The host's documents.                                                   *)
(***************************************************************************)
\* a new empty design, a design made with the add-in, a document whose product
\* is not a Fusion design
InitialDocs == {"blank", "fretboard", "drawing"}
ImportNames == <<"import1", "import2", "import3">>

\* adsk.fusion.Design.cast(product) is not None
IsDesign(d) == d /= "drawing"

\* the timeline of a document's design
TimelineOf(d) == IF d \in {"blank", "drawing"} THEN <<>> ELSE Timeline

\* the user parameters of the documents the host starts with
InitialParams(d) ==
    IF d = "fretboard"
    THEN << [name |-> "p1", expression |-> E2],
            [name |-> "f1", expression |-> Formula],
            [name |-> "x1", expression |-> E1],
            [name |-> FINGERPRINT_PARAM, expression |-> FINGERPRINT_VALUE] >>
    ELSE <<>>

\* the user parameters of templates/fretboard_imperial.f3d
TemplateParams ==
    << [name |-> "p1", expression |-> E1],
       [name |-> "p2", expression |-> E2],
       [name |-> "f1", expression |-> Formula] >>

Msg(action, data) == [action |-> action, data |-> data]

(***************************************************************************)
(* Parameter templates: JSON files in PRESETS_DIR (read-only) and in       *)
(* USER_TEMPLATES_DIR.  A file name is a sequence of characters, a stored  *)
(* template is [name, parameters]; description, createdAt and              *)
(* schemaVersion are passed through unread and left out.                   *)
(***************************************************************************)
\* the characters of names and ids, in code-point order
Chars ==
    << " ", "!", "-", ".", "/", "0", "1", "2", "3", "4", "5", "6", "7", "8", "9",
       "A", "P", "_", "a", "b", "e", "j", "l", "m", "n", "o", "p", "s", "t" >>

Ord(c) == CHOOSE i \in DOMAIN Chars : Chars[i] = c

\* str < str
RECURSIVE LexLess(_, _)
LexLess(a, b) ==
    IF b = <<>> THEN FALSE
    ELSE IF a = <<>> THEN TRUE
    ELSE IF Head(a) /= Head(b) THEN Ord(Head(a)) < Ord(Head(b))
    ELSE LexLess(Tail(a), Tail(b))

\* sorted(names)
RECURSIVE Sorted(_)
Sorted(names) ==
    IF names = {} THEN <<>>
    ELSE LET m == CHOOSE x \in names : \A y \in names \ {x} : LexLess(x, y)
         IN  <<m>> \o Sorted(names \ {m})

Ext == <<".", "j", "s", "o", "n">>

\* fname.endswith('.json')
EndsWithExt(fname) ==
    Len(fname) >= Len(Ext) /\ SubSeq(fname, Len(fname) - Len(Ext) + 1, Len(fname)) = Ext

\* fname[:-5]
Stem(fname) == SubSeq(fname, 1, Len(fname) - 5)

\* str.lower()
Lower(c) == IF c = "A" THEN "a" ELSE IF c = "P" THEN "p" ELSE c

\* \w
WordChars == {Chars[i] : i \in DOMAIN Chars} \ {" ", "!", "-", ".", "/"}

\* re.sub(r'[^\w\s-]', '', name.lower())
RECURSIVE KeepSlugChars(_)
KeepSlugChars(s) ==
    IF s = <<>> THEN <<>>
    ELSE IF Lower(Head(s)) \in WordChars \cup {" ", "-"}
         THEN <<Lower(Head(s))>> \o KeepSlugChars(Tail(s))
    ELSE KeepSlugChars(Tail(s))

RECURSIVE DropSeparators(_)
DropSeparators(s) ==
    IF s /= <<>> /\ Head(s) \in {" ", "-"} THEN DropSeparators(Tail(s)) ELSE s

\* re.sub(r'[\s-]+', '_', slug)
RECURSIVE CollapseSeparators(_)
CollapseSeparators(s) ==
    IF s = <<>> THEN <<>>
    ELSE IF Head(s) \in {" ", "-"}
         THEN <<"_">> \o CollapseSeparators(DropSeparators(s))
    ELSE <<Head(s)>> \o CollapseSeparators(Tail(s))

\* str.strip('_')
RECURSIVE StripUnderscores(_)
StripUnderscores(s) ==
    IF s /= <<>> /\ Head(s) = "_" THEN StripUnderscores(Tail(s))
    ELSE IF s /= <<>> /\ s[Len(s)] = "_" THEN StripUnderscores(SubSeq(s, 1, Len(s) - 1))
    ELSE s

\* _on_save_template: the slug of a template name
Slugify(name) ==
    LET slug == StripUnderscores(CollapseSeparators(KeepSlugChars(name)))
    IN  IF slug = <<>> THEN <<"t", "e", "m", "p", "l", "a", "t", "e">> ELSE slug

\* str(counter), for a counter of one digit
Str(counter) == <<Chars[Ord("0") + counter]>>

\* the numbered file of the starting counter, whether or not it is a file
FirstNumberedFile(files, slug, counter) == slug \o <<"_">> \o Str(counter) \o Ext

\* _on_save_template: the first '<slug>_<counter>.json' that is not a file
RECURSIVE NumberedFile(_, _, _)
NumberedFile(files, slug, counter) ==
    IF (slug \o <<"_">> \o Str(counter) \o Ext) \in DOMAIN files
    THEN NumberedFile(files, slug, counter + 1)
    ELSE slug \o <<"_">> \o Str(counter) \o Ext

\* a file name without the '.json' ending
SaveFileWithoutExt(files, name) == Slugify(name)

\* _on_save_template: the file a template of the given (stripped) name is written to
SaveFile(files, name) ==
    LET slug == Slugify(name)
        filepath == slug \o Ext
    IN  IF filepath \in DOMAIN files /\ files[filepath].name /= name
        THEN NumberedFile(files, slug, 2)
        ELSE filepath

\* an id taken as it is, with its folders
WholeId(id) == id

\* os.path.basename(template_id): what follows the last separator
RECURSIVE Basename(_)
Basename(id) ==
    IF \E i \in DOMAIN id : id[i] = "/"
    THEN Basename(Tail(id))
    ELSE id

\* A path is a sequence of components, each a sequence of characters.
USER_TEMPLATES_DIR == << <<"d">>, <<"t">> >>
PRESETS_DIR == << <<"r">>, <<"t">>, <<"p">> >>
\* a folder beside USER_TEMPLATES_DIR whose name begins with the same characters
SiblingDir == << <<"d">>, <<"t", "2">> >>

\* a path string split at its separators
RECURSIVE Components(_)
Components(s) ==
    IF \A i \in DOMAIN s : s[i] /= "/" THEN <<s>>
    ELSE LET k == CHOOSE i \in DOMAIN s : s[i] = "/" /\ \A j \in 1..(i - 1) : s[j] /= "/"
         IN  <<SubSeq(s, 1, k - 1)>> \o Components(SubSeq(s, k + 1, Len(s)))

\* os.path.join(folder, name): an absolute name replaces the folder
JoinPath(folder, name) ==
    IF name /= <<>> /\ Head(name) = "/" THEN Components(name)
    ELSE folder \o Components(name)

\* os.path.abspath of an absolute path: '' and '.' dropped, '..' resolved
RECURSIVE NormPath(_)
NormPath(path) ==
    IF path = <<>> THEN <<>>
    ELSE LET before == NormPath(SubSeq(path, 1, Len(path) - 1))
             last == path[Len(path)]
         IN  IF last = <<>> \/ last = <<".">> THEN before
             ELSE IF last = <<".", ".">>
                  THEN IF before = <<>> THEN <<>>
                       ELSE SubSeq(before, 1, Len(before) - 1)
             ELSE Append(before, last)

\* the path written as a string
RECURSIVE PathString(_)
PathString(path) ==
    IF path = <<>> THEN <<>>
    ELSE <<"/">> \o Head(path) \o PathString(Tail(path))

\* str.startswith
StartsWith(s, prefix) ==
    Len(s) >= Len(prefix) /\ SubSeq(s, 1, Len(prefix)) = prefix

\* the path is a file directly inside USER_TEMPLATES_DIR
IsUserFile(files, path) ==
    /\ Len(path) = Len(USER_TEMPLATES_DIR) + 1
    /\ SubSeq(path, 1, Len(USER_TEMPLATES_DIR)) = USER_TEMPLATES_DIR
    /\ path[Len(path)] \in DOMAIN files

\* the files of PRESETS_DIR
PresetTemplates ==
    [f \in {<<"a">> \o Ext} |->
        [name |-> <<"P">>,
         parameters |-> << [name |-> "p1", expression |-> E3],
                           [name |-> "zz", expression |-> E1],
                           [name |-> "f1", expression |-> E2] >>]]

\* _build_template_list(): the entries of one folder, in file-name order
TemplateEntriesOf(files, readonly) ==
    LET names == Sorted({f \in DOMAIN files : EndsWithExt(f)})
    IN  [i \in DOMAIN names |->
            [id |-> Stem(names[i]), name |-> files[names[i]].name,
             readonly |-> readonly, parameters |-> files[names[i]].parameters]]

\* the files of PRESETS_DIR that exist
Presets(outside) ==
    [f \in {g \in DOMAIN PresetTemplates : (PRESETS_DIR \o <<g>>) \in outside} |->
        PresetTemplates[f]]

\* _build_template_list()
_build_template_list(outside, files) ==
    [presets |-> TemplateEntriesOf(Presets(outside), TRUE),
     userTemplates |-> TemplateEntriesOf(files, FALSE)]

\* a lookup that never finds the template's value
SchemaDefaultOnly(parameters, name, default) == default

\* dict.get(name, default) on a template's parameters
TemplateValue(parameters, name, default) ==
    IF itemByName(parameters, name) /= 0
    THEN parameters[itemByName(parameters, name)].expression
    ELSE default

\* _on_load_template: the entries of a group, editable parameters with the
\* template's value or the schema default
RECURSIVE TemplateEntries(_, _)
TemplateEntries(defs, parameters) ==
    IF defs = <<>> THEN <<>>
    ELSE IF ~Head(defs).editable THEN TemplateEntries(Tail(defs), parameters)
    ELSE <<[name |-> Head(defs).name, default |-> Head(defs).default,
            expression |-> TemplateValue(parameters, Head(defs).name, Head(defs).default)]>>
         \o TemplateEntries(Tail(defs), parameters)

RECURSIVE TemplateGroups(_, _)
TemplateGroups(groups, parameters) ==
    IF groups = <<>> THEN <<>>
    ELSE <<[id |-> Head(groups).id, order |-> Head(groups).order,
            parameters |-> TemplateEntries(Head(groups).parameters, parameters)]>>
         \o TemplateGroups(Tail(groups), parameters)

\* _on_load_template: the payload built from a template
TemplatePayload(schema, template) ==
    [mode |-> "template",
     groups |-> SortByOrder(TemplateGroups(schema.groups, template.parameters)),
     missing |-> <<>>,
     extra |-> <<>>,
     templateName |-> template.name]

(***************************************************************************)
(* Inputs: the data of the palette's messages.  json.loads raises on       *)
(* BadJSON and returns the value of any other data.                        *)
(***************************************************************************)
BadJSON == None

\* APPLY_PARAMS objects: { name: expression }
ApplyInputs ==
    { <<>>,
      << [name |-> "p1", expression |-> E2] >>,
      << [name |-> "p1", expression |-> E1] >>,
      << [name |-> "f1", expression |-> E2], [name |-> "x1", expression |-> E2],
         [name |-> "p2", expression |-> E1], [name |-> "p1", expression |-> Padded3] >>,
      << [name |-> "p1", expression |-> BadExpr], [name |-> "p2", expression |-> Blank] >> }

Change(name, type, suppressed) == [name |-> name, type |-> type, suppressed |-> suppressed]

\* APPLY_TIMELINE_CHANGES objects: { changes: [ {name, type, suppressed} ] }
TimelineInputs ==
    { [changes |-> <<>>],
      [changes |-> << Change("A", "Feature", TRUE) >>],
      [changes |-> << Change("Z", "Feature", TRUE), Change("A", "Feature", FALSE) >>],
      [changes |-> << Change("L", "Feature", TRUE), Change("G", "Group", TRUE) >>],
      [changes |-> << Change("G", "Group", FALSE), Change("B", "Feature", TRUE) >>] }

\* SAVE_TEMPLATE objects: { name, parameters }
SaveInputs ==
    { [name |-> <<"A">>, parameters |-> << [name |-> "p1", expression |-> E3] >>],
      [name |-> <<" ", "a", " ">>,
       parameters |-> << [name |-> "p2", expression |-> E1],
                         [name |-> "x1", expression |-> E3] >>],
      [name |-> <<"a", "!">>, parameters |-> <<>>],
      [name |-> <<"!">>, parameters |-> <<>>],
      [name |-> Blank, parameters |-> <<>>] }

\* DELETE_TEMPLATE objects: { id }
DeleteInputs ==
    { [id |-> <<"a">>], [id |-> <<".", ".", "/", "a">>], [id |-> <<"b">>], [id |-> <<>>],
      [id |-> <<".", ".", "/", "t", "2", "/", "a">>],
      [id |-> <<"/", "r", "/", "t", "/", "p", "/", "a">>],
      [id |-> <<".", ".">>] }

\* LOAD_TEMPLATE objects: { id, readonly }
LoadInputs ==
    { [id |-> <<"a">>, readonly |-> TRUE],
      [id |-> <<"a">>, readonly |-> FALSE],
      [id |-> <<"a", "_", "2">>, readonly |-> FALSE],
      [id |-> <<"b">>, readonly |-> TRUE] }

Messages ==
    {Msg(a, None) : a \in {"ready", "GET_MODEL_STATE", "cancel", "GET_TIMELINE_ITEMS",
                           "GET_TIMELINE_SUMMARY", "response", "unknown",
                           "OPEN_TEMPLATES_FOLDER", "GET_TEMPLATES"}}
    \cup {Msg("OPEN_URL", d) : d \in {BadJSON, Some([url |-> "https://"])}}
    \cup {Msg("SAVE_TEMPLATE", d) : d \in {BadJSON} \cup {Some(v) : v \in SaveInputs}}
    \cup {Msg("DELETE_TEMPLATE", d) : d \in {BadJSON} \cup {Some(v) : v \in DeleteInputs}}
    \cup {Msg("LOAD_TEMPLATE", d) : d \in {BadJSON} \cup {Some(v) : v \in LoadInputs}}
    \cup {Msg("APPLY_PARAMS", d) : d \in {BadJSON} \cup {Some(v) : v \in ApplyInputs}}
    \cup {Msg("APPLY_TIMELINE_CHANGES", d) :
             d \in {BadJSON} \cup {Some(v) : v \in TimelineInputs}}

(***************************************************************************)
(* The initial state: the host is running with any of its documents        *)
(* active, the add-in is not loaded.                                       *)
(***************************************************************************)
Init ==
    /\ addinRunning = FALSE
    /\ commandDefinition = FALSE
    /\ commandControl = FALSE
    /\ documentActivatedHandler = FALSE
    /\ applyEventRegistered = FALSE
    /\ timelineEventRegistered = FALSE
    /\ applyFired = 0
    /\ timelineFired = 0
    /\ palette = "none"
    /\ _pending_payload = None
    /\ _pending_apply = None
    /\ _pending_timeline_op = None
    /\ _owner_document = None
    /\ documents = InitialDocs
    /\ activeDoc \in InitialDocs
    /\ userParameters = [d \in InitialDocs |-> InitialParams(d)]
    /\ isSuppressed = [d \in InitialDocs |-> [i \in DOMAIN TimelineOf(d) |-> FALSE]]
    /\ schemaFile \in BOOLEAN
    /\ templateFile \in BOOLEAN
    /\ userTemplates = [f \in {} |-> None]
    /\ outsideFiles = {PRESETS_DIR \o <<f>> : f \in DOMAIN PresetTemplates}
                          \cup {SiblingDir \o <<f>> : f \in DOMAIN PresetTemplates}
    /\ handler = "init"
    /\ sent = <<>>
    /\ msgBox = "none"
    /\ applyResult = None
    /\ timelineAccepted = 0
    /\ timelineResults = 0

slotVars == <<_pending_payload, _pending_apply, _pending_timeline_op, _owner_document>>
countVars == <<timelineAccepted, timelineResults>>
firedVars == <<applyFired, timelineFired>>

(***************************************************************************)
(* The add-in's entry points.                                              *)
(***************************************************************************)
\* the parameters of commands.start (commands/__init__.py: def start())
commands_start_params == {}

\* entry.start(is_startup): what it registers and shows
entry_start(is_startup) ==
    /\ commandDefinition' = TRUE
    /\ commandControl' = TRUE
    /\ documentActivatedHandler' = TRUE
    /\ applyEventRegistered' = TRUE
    /\ timelineEventRegistered' = TRUE
    /\ msgBox' = IF ~is_startup THEN "welcome" ELSE "none"
    /\ applyResult' = None

\* run(context): commands.start(is_startup=is_startup); a call with a keyword that
\* commands.start does not take raises TypeError, which run catches
run(isApplicationStartup) ==
    /\ ~addinRunning
    /\ addinRunning' = TRUE
    /\ IF "is_startup" \in commands_start_params
       THEN entry_start(isApplicationStartup)
       ELSE /\ UNCHANGED <<commandDefinition, commandControl, documentActivatedHandler,
                           applyEventRegistered, timelineEventRegistered>>
            /\ msgBox' = "none"
            /\ applyResult' = None
    /\ handler' = "run"
    /\ sent' = <<>>
    /\ UNCHANGED <<firedVars, palette, slotVars, hostVars, countVars>>

\* the command module's start(is_startup), entered directly
start(is_startup) ==
    /\ ~addinRunning
    /\ addinRunning' = TRUE
    /\ entry_start(is_startup)
    /\ handler' = "start"
    /\ sent' = <<>>
    /\ UNCHANGED <<firedVars, palette, slotVars, hostVars, countVars>>

\* an unload that leaves the custom events registered
stop_keeps_events ==
    /\ addinRunning
    /\ addinRunning' = FALSE
    /\ documentActivatedHandler' = FALSE
    /\ commandControl' = FALSE
    /\ commandDefinition' = FALSE
    /\ palette' = "none"
    /\ handler' = "stop"
    /\ sent' = <<>>
    /\ msgBox' = "none"
    /\ applyResult' = None
    /\ UNCHANGED <<applyEventRegistered, timelineEventRegistered, firedVars, slotVars,
                   hostVars, countVars>>

\* stop(context): futil.clear_handlers(), then commands.stop() -> entry.stop()
stop ==
    /\ addinRunning
    /\ addinRunning' = FALSE
    /\ documentActivatedHandler' = FALSE
    /\ commandControl' = FALSE
    /\ commandDefinition' = FALSE
    /\ palette' = "none"
    /\ applyEventRegistered' = FALSE
    /\ timelineEventRegistered' = FALSE
    /\ applyFired' = 0
    /\ timelineFired' = 0
    /\ handler' = "stop"
    /\ sent' = <<>>
    /\ msgBox' = "none"
    /\ applyResult' = None
    /\ UNCHANGED <<slotVars, hostVars, countVars>>

(***************************************************************************)
(* The toolbar command.                                                    *)
(***************************************************************************)
\* _show_palette(payload): the active product is a design here
_show_palette(payload) ==
    /\ _owner_document' = Some(activeDoc)
    /\ palette' = "visible"
    /\ IF palette = "none"
       THEN /\ _pending_payload' = Some(payload)
            /\ sent' = <<>>
       ELSE /\ sent' = <<Msg("PUSH_MODEL_STATE", payload)>>
            /\ UNCHANGED _pending_payload

\* a payload choice that ignores the fingerprint
ExecutePayloadFromSchema(file, params) == build_schema_payload(file)

\* the payload command_execute builds for a design: None when it cannot be built
ExecutePayload(file, params) ==
    IF get_fingerprint(params) /= None
    THEN build_ui_payload(file, params)
    ELSE build_schema_payload(file)

\* command_created, then command_execute: the toolbar button is clicked
command_execute ==
    /\ commandDefinition
    /\ commandControl
    /\ handler' = "command_execute"
    /\ IF ~IsDesign(activeDoc)
       THEN /\ msgBox' = "no_design"
            /\ applyResult' = None
            /\ sent' = <<>>
            /\ UNCHANGED <<palette, _pending_payload, _owner_document>>
       ELSE IF ExecutePayload(schemaFile, userParameters[activeDoc]) = None
       THEN /\ msgBox' = "payload_failed"
            /\ applyResult' = None
            /\ sent' = <<>>
            /\ UNCHANGED <<palette, _pending_payload, _owner_document>>
       ELSE /\ msgBox' = "none"
            /\ applyResult' = None
            /\ _show_palette(ExecutePayload(schemaFile, userParameters[activeDoc])[1])
    /\ UNCHANGED <<regVars, firedVars, _pending_apply, _pending_timeline_op,
                   hostVars, countVars>>

(***************************************************************************)
(* Document lifecycle and the palette's close button (host events).        *)
(***************************************************************************)
\* an activation handler that also shows the palette when its owner is activated
on_document_activated_shows_owner(d, pal, owner) ==
    IF pal = "none" THEN pal
    ELSE IF owner /= None /\ Some(d) /= owner THEN "hidden"
    ELSE IF owner /= None THEN "visible"
    ELSE pal

\* on_document_activated(args): the palette's visibility after the activation of d
on_document_activated(d, pal, owner) ==
    IF pal = "none" THEN pal
    ELSE IF owner /= None /\ Some(d) /= owner THEN "hidden"
    ELSE pal

\* the user switches to document d; the host raises documentActivated
documentActivated(d) ==
    /\ d \in documents
    /\ d /= activeDoc
    /\ activeDoc' = d
    /\ IF documentActivatedHandler
       THEN /\ palette' = on_document_activated(d, palette, _owner_document)
            /\ handler' = "on_document_activated"
       ELSE /\ UNCHANGED palette
            /\ handler' = "host"
    /\ sent' = <<>>
    /\ msgBox' = "none"
    /\ applyResult' = None
    /\ UNCHANGED <<regVars, firedVars, slotVars, documents, userParameters, isSuppressed,
                   schemaFile, templateFile, userTemplates, outsideFiles,
                   countVars>>

\* the user closes the palette: the host hides it and calls palette_closed
palette_closed ==
    /\ palette = "visible"
    /\ palette' = "hidden"
    /\ handler' = "palette_closed"
    /\ sent' = <<>>
    /\ msgBox' = "none"
    /\ applyResult' = None
    /\ UNCHANGED <<regVars, firedVars, slotVars, hostVars, countVars>>

(***************************************************************************)
(* The palette's message handlers (palette_incoming dispatches on action). *)
(***************************************************************************)
\* a 'ready' handler that sends the stashed payload and keeps it
_on_palette_ready_keeps_payload ==
    /\ sent' = IF _pending_payload /= None /\ palette /= "none"
               THEN <<Msg("PUSH_MODEL_STATE", _pending_payload[1])>>
               ELSE <<>>
    /\ UNCHANGED <<firedVars, palette, slotVars, hostVars, countVars>>

\* _on_palette_ready()
_on_palette_ready ==
    /\ IF _pending_payload /= None
       THEN /\ sent' = IF palette /= "none"
                       THEN <<Msg("PUSH_MODEL_STATE", _pending_payload[1])>>
                       ELSE <<>>
            /\ _pending_payload' = None
       ELSE /\ sent' = <<>>
            /\ UNCHANGED _pending_payload
    /\ UNCHANGED <<firedVars, palette, _pending_apply, _pending_timeline_op,
                   _owner_document, hostVars, countVars>>

\* the messages _on_refresh_request() sends for the given parameters of the active design
RefreshMessages(pal, file, d, params) ==
    IF ~IsDesign(d) THEN <<>>
    ELSE IF build_ui_payload(file, params) = None THEN <<>>
    ELSE IF pal = "none" THEN <<>>
    ELSE <<Msg("PUSH_MODEL_STATE", build_ui_payload(file, params)[1])>>

\* _on_refresh_request()
_on_refresh_request ==
    /\ sent' = RefreshMessages(palette, schemaFile, activeDoc, userParameters[activeDoc])
    /\ UNCHANGED <<firedVars, palette, slotVars, hostVars, countVars>>

\* an APPLY_PARAMS handler that edits the design while the message is handled
_apply_params_in_place(data) ==
    IF data = BadJSON \/ ~IsDesign(activeDoc)
    THEN /\ sent' = <<>>
         /\ UNCHANGED <<firedVars, palette, slotVars, hostVars, countVars>>
    ELSE /\ userParameters' =
               [userParameters EXCEPT ![activeDoc] =
                   apply_parameters(schemaFile, @, data[1]).params]
         /\ sent' = <<>>
         /\ UNCHANGED <<firedVars, palette, slotVars, documents, activeDoc, isSuppressed,
                        schemaFile, templateFile, userTemplates, outsideFiles,
                   countVars>>

\* an _on_apply_params that stores what it could not parse
_on_apply_params_stores_unparsed(data) ==
    /\ applyFired < MaxFired
    /\ _pending_apply' = IF data = BadJSON THEN None ELSE Some(data[1])
    /\ sent' = IF palette /= "none" /\ data /= BadJSON THEN <<Msg("COMPUTING", <<>>)>>
               ELSE <<>>
    /\ applyFired' = IF applyEventRegistered /\ data /= BadJSON THEN applyFired + 1
                     ELSE applyFired
    /\ UNCHANGED <<timelineFired, palette, _pending_payload, _pending_timeline_op,
                   _owner_document, hostVars, countVars>>

\* _on_apply_params(data_json)
_on_apply_params(data) ==
    IF data = BadJSON
    THEN /\ sent' = <<>>
         /\ UNCHANGED <<firedVars, palette, slotVars, hostVars, countVars>>
    ELSE /\ applyFired < MaxFired
         /\ _pending_apply' = Some(data[1])
         /\ sent' = IF palette /= "none" THEN <<Msg("COMPUTING", <<>>)>> ELSE <<>>
         /\ applyFired' = IF applyEventRegistered THEN applyFired + 1 ELSE applyFired
         /\ UNCHANGED <<timelineFired, palette, _pending_payload, _pending_timeline_op,
                        _owner_document, hostVars, countVars>>

\* _close_palette()
_close_palette ==
    /\ palette' = IF palette /= "none" THEN "hidden" ELSE palette
    /\ sent' = <<>>
    /\ UNCHANGED <<firedVars, slotVars, hostVars, countVars>>

\* _on_get_timeline_items()
_on_get_timeline_items ==
    /\ sent' = IF IsDesign(activeDoc) /\ palette /= "none"
               THEN <<Msg("PUSH_TIMELINE_ITEMS",
                          get_timeline_items(TimelineOf(activeDoc), isSuppressed[activeDoc]))>>
               ELSE <<>>
    /\ UNCHANGED <<firedVars, palette, slotVars, hostVars, countVars>>

\* _on_get_timeline_summary()
_on_get_timeline_summary ==
    /\ sent' = IF IsDesign(activeDoc) /\ palette /= "none"
               THEN <<Msg("PUSH_TIMELINE_SUMMARY",
                          get_timeline_summary(TimelineOf(activeDoc), isSuppressed[activeDoc]))>>
               ELSE <<>>
    /\ UNCHANGED <<firedVars, palette, slotVars, hostVars, countVars>>

\* _queue_timeline_op(action, data_json)
_queue_timeline_op(action, data) ==
    IF data = BadJSON
    THEN /\ sent' = <<>>
         /\ UNCHANGED <<firedVars, palette, slotVars, hostVars, countVars>>
    ELSE /\ timelineFired < MaxFired
         /\ timelineAccepted < MaxTimelineMsgs
         /\ _pending_timeline_op' = Some([action |-> action, data |-> data[1]])
         /\ timelineFired' = IF timelineEventRegistered THEN timelineFired + 1
                             ELSE timelineFired
         /\ timelineAccepted' = timelineAccepted + 1
         /\ sent' = <<>>
         /\ UNCHANGED <<applyFired, palette, _pending_payload, _pending_apply,
                        _owner_document, hostVars, timelineResults>>

\* _on_open_url(data_json): the browser is opened, the add-in's state is not read
_on_open_url(data) ==
    /\ sent' = <<>>
    /\ UNCHANGED <<firedVars, palette, slotVars, hostVars, countVars>>

\* _on_open_templates_folder()
_on_open_templates_folder ==
    /\ sent' = <<>>
    /\ UNCHANGED <<firedVars, palette, slotVars, hostVars, countVars>>

\* the messages _on_get_templates() sends for the given user templates
TemplateListMessages(pal, outside, files) ==
    IF pal = "none" THEN <<>>
    ELSE <<Msg("PUSH_TEMPLATES", _build_template_list(outside, files))>>

\* _on_get_templates()
_on_get_templates ==
    /\ sent' = TemplateListMessages(palette, outsideFiles, userTemplates)
    /\ UNCHANGED <<firedVars, palette, slotVars, hostVars, countVars>>

\* _on_save_template(data_json): the write succeeds or raises
_on_save_template(data) ==
    /\ IF data = BadJSON \/ Strip(data[1].name) = <<>>
       THEN /\ sent' = <<>>
            /\ UNCHANGED userTemplates
       ELSE LET name == Strip(data[1].name)
                filepath == SaveFile(userTemplates, name)
            IN  /\ \/ filepath \in DOMAIN userTemplates
                   \/ Cardinality(DOMAIN userTemplates) < MaxUserTemplates
                /\ \E written \in BOOLEAN :
                      IF written
                      THEN /\ userTemplates' =
                                 [f \in DOMAIN userTemplates \cup {filepath} |->
                                     IF f = filepath
                                     THEN [name |-> name,
                                           parameters |-> data[1].parameters]
                                     ELSE userTemplates[f]]
                           /\ sent' = TemplateListMessages(palette, outsideFiles,
                                                           userTemplates')
                      ELSE /\ sent' = <<>>
                           /\ UNCHANGED userTemplates
    /\ UNCHANGED <<firedVars, palette, slotVars, documents, activeDoc, userParameters,
                   isSuppressed, schemaFile, templateFile, outsideFiles, countVars>>

\* _on_delete_template(data_json): os.remove succeeds or raises
_on_delete_template(data) ==
    /\ IF data = BadJSON \/ data[1].id = <<>>
       THEN /\ sent' = <<>>
            /\ UNCHANGED <<userTemplates, outsideFiles>>
       ELSE LET safe_id == Basename(data[1].id)
                filepath == JoinPath(USER_TEMPLATES_DIR, safe_id \o Ext)
                target == NormPath(filepath)
            IN  IF ~StartsWith(PathString(NormPath(filepath)),
                               PathString(NormPath(USER_TEMPLATES_DIR)))
                THEN /\ sent' = <<>>
                     /\ UNCHANGED <<userTemplates, outsideFiles>>
                ELSE /\ \E removed \in BOOLEAN :
                          IF removed /\ IsUserFile(userTemplates, target)
                          THEN /\ userTemplates' =
                                     [f \in DOMAIN userTemplates \ {target[Len(target)]} |->
                                         userTemplates[f]]
                               /\ UNCHANGED outsideFiles
                          ELSE IF removed /\ target \in outsideFiles
                          THEN /\ outsideFiles' = outsideFiles \ {target}
                               /\ UNCHANGED userTemplates
                          ELSE UNCHANGED <<userTemplates, outsideFiles>>
                     /\ sent' = TemplateListMessages(palette, outsideFiles', userTemplates')
    /\ UNCHANGED <<firedVars, palette, slotVars, documents, activeDoc, userParameters,
                   isSuppressed, schemaFile, templateFile, countVars>>

\* _on_load_template(data_json)
_on_load_template(data) ==
    /\ IF data = BadJSON
       THEN sent' = <<>>
       ELSE LET files == IF data[1].readonly THEN Presets(outsideFiles) ELSE userTemplates
                filepath == Basename(data[1].id) \o Ext
            IN  IF filepath \notin DOMAIN files THEN sent' = <<>>
                ELSE IF load_schema(schemaFile) = None THEN sent' = <<>>
                ELSE IF palette = "none" THEN sent' = <<>>
                ELSE sent' = <<Msg("PUSH_MODEL_STATE",
                                   TemplatePayload(load_schema(schemaFile)[1],
                                                   files[filepath]))>>
    /\ UNCHANGED <<firedVars, palette, slotVars, hostVars, countVars>>

\* an action without a handler effect: 'response' and unknown actions are logged only
NoEffect ==
    /\ sent' = <<>>
    /\ UNCHANGED <<firedVars, palette, slotVars, hostVars, countVars>>

\* palette_incoming(args)
palette_incoming(msg) ==
    /\ palette /= "none"
    /\ handler' = msg.action
    /\ msgBox' = "none"
    /\ applyResult' = None
    /\ UNCHANGED regVars
    /\ CASE msg.action = "ready" -> _on_palette_ready
         [] msg.action = "GET_MODEL_STATE" -> _on_refresh_request
         [] msg.action = "APPLY_PARAMS" -> _on_apply_params(msg.data)
         [] msg.action = "cancel" -> _close_palette
         [] msg.action = "OPEN_URL" -> _on_open_url(msg.data)
         [] msg.action = "OPEN_TEMPLATES_FOLDER" -> _on_open_templates_folder
         [] msg.action = "GET_TEMPLATES" -> _on_get_templates
         [] msg.action = "SAVE_TEMPLATE" -> _on_save_template(msg.data)
         [] msg.action = "DELETE_TEMPLATE" -> _on_delete_template(msg.data)
         [] msg.action = "LOAD_TEMPLATE" -> _on_load_template(msg.data)
         [] msg.action = "GET_TIMELINE_ITEMS" -> _on_get_timeline_items
         [] msg.action = "APPLY_TIMELINE_CHANGES" ->
                _queue_timeline_op("APPLY_TIMELINE_CHANGES", msg.data)
         [] msg.action = "GET_TIMELINE_SUMMARY" -> _on_get_timeline_summary
         [] OTHER -> NoEffect

(***************************************************************************)
(* The deferred handlers: the host delivers a fired custom event.          *)
(***************************************************************************)
Imported == documents \ InitialDocs

\* the parameters apply_parameters leaves in the design, then _on_refresh_request()
ApplyAndRefresh(d, params, param_values) ==
    LET result == apply_parameters(schemaFile, params, param_values)
    IN  /\ userParameters' = [dd \in documents' |->
                                 IF dd = d THEN result.params
                                 ELSE userParameters[dd]]
        /\ sent' = RefreshMessages(palette', schemaFile, d, result.params)

\* result = apply_parameters(design, param_values): { "updated", "errors" }
ApplyResult(params, param_values) ==
    LET result == apply_parameters(schemaFile, params, param_values)
    IN  [updated |-> result.updated, errors |-> result.errors]

\* a lookup that finds the template whether or not it is there
TemplateAlwaysFound == TRUE

\* os.path.isfile(template_path)
TemplateIsFile == templateFile

\* _deferred_apply_handler(args)
_deferred_apply_handler ==
    /\ applyEventRegistered
    /\ applyFired > 0
    /\ applyFired' = applyFired - 1
    /\ handler' = "_deferred_apply_handler"
    /\ _pending_apply' = None
    /\ IF _pending_apply = None \/ ~IsDesign(activeDoc)
       THEN /\ msgBox' = "none"
            /\ applyResult' = None
            /\ sent' = <<>>
            /\ UNCHANGED <<palette, _owner_document, hostVars>>
       ELSE IF Len(userParameters[activeDoc]) = 0
       THEN IF ~TemplateIsFile
            THEN /\ msgBox' = "template_missing"
                 /\ applyResult' = None
                 /\ sent' = <<>>
                 /\ UNCHANGED <<palette, _owner_document, hostVars>>
            ELSE \* importToNewDocument, activate(): documentActivated is raised for
                 \* the new document, while _owner_document still holds the old
                 \* owner or once the handler has returned
                 /\ Cardinality(Imported) < MaxImports
                 /\ LET doc == ImportNames[Cardinality(Imported) + 1]
                    IN  /\ documents' = documents \cup {doc}
                        /\ activeDoc' = doc
                        /\ _owner_document' = Some(doc)
                        /\ isSuppressed' = [dd \in documents' |->
                                               IF dd = doc
                                               THEN [i \in DOMAIN Timeline |-> FALSE]
                                               ELSE isSuppressed[dd]]
                        /\ \E during \in BOOLEAN :
                              palette' = IF during /\ documentActivatedHandler
                                         THEN on_document_activated(doc, palette,
                                                                    _owner_document)
                                         ELSE palette
                        /\ ApplyAndRefresh(doc, set_fingerprint(TemplateParams),
                                           _pending_apply[1])
                 /\ msgBox' = "none"
                 /\ applyResult' = Some(ApplyResult(set_fingerprint(TemplateParams), _pending_apply[1]))
                 /\ UNCHANGED <<schemaFile, templateFile, userTemplates, outsideFiles>>
       ELSE /\ msgBox' = "none"
            /\ applyResult' = Some(ApplyResult(userParameters[activeDoc], _pending_apply[1]))
            /\ UNCHANGED <<palette, _owner_document, documents, activeDoc, isSuppressed,
                           schemaFile, templateFile, userTemplates, outsideFiles>>
            /\ ApplyAndRefresh(activeDoc, userParameters[activeDoc], _pending_apply[1])
    /\ UNCHANGED <<regVars, timelineFired, _pending_payload, _pending_timeline_op, countVars>>

\* a timeline handler that leaves the operation in its slot
_deferred_timeline_handler_keeps_op ==
    /\ timelineEventRegistered
    /\ timelineFired > 0
    /\ timelineFired' = timelineFired - 1
    /\ handler' = "_deferred_timeline_handler"
    /\ msgBox' = "none"
    /\ applyResult' = None
    /\ _pending_timeline_op' = _pending_timeline_op
    /\ IF \/ _pending_timeline_op = None
          \/ _pending_timeline_op[1].action /= "APPLY_TIMELINE_CHANGES"
          \/ ~IsDesign(activeDoc)
       THEN /\ sent' = <<>>
            /\ UNCHANGED <<isSuppressed, timelineResults>>
       ELSE LET acc == TimelineBatch(TimelineOf(activeDoc),
                                     [flags |-> isSuppressed[activeDoc],
                                      success_count |-> 0, failed |-> <<>>],
                                     _pending_timeline_op[1].data.changes)
                result == [success |-> Len(acc.failed) = 0,
                           successCount |-> acc.success_count,
                           failed |-> acc.failed]
            IN  /\ isSuppressed' = [isSuppressed EXCEPT ![activeDoc] = acc.flags]
                /\ IF palette /= "none"
                   THEN /\ sent' = <<Msg("TIMELINE_OPERATION_RESULT", result)>>
                        /\ timelineResults' = timelineResults + 1
                   ELSE /\ sent' = <<>>
                        /\ UNCHANGED timelineResults
    /\ UNCHANGED <<regVars, applyFired, palette, _pending_payload, _pending_apply,
                   _owner_document, documents, activeDoc, userParameters,
                   schemaFile, templateFile, userTemplates, outsideFiles,
                   timelineAccepted>>

\* _deferred_timeline_handler(args)
_deferred_timeline_handler ==
    /\ timelineEventRegistered
    /\ timelineFired > 0
    /\ timelineFired' = timelineFired - 1
    /\ handler' = "_deferred_timeline_handler"
    /\ msgBox' = "none"
    /\ applyResult' = None
    /\ _pending_timeline_op' = None
    /\ IF \/ _pending_timeline_op = None
          \/ _pending_timeline_op[1].action /= "APPLY_TIMELINE_CHANGES"
          \/ ~IsDesign(activeDoc)
       THEN /\ sent' = <<>>
            /\ UNCHANGED <<isSuppressed, timelineResults>>
       ELSE LET acc == TimelineBatch(TimelineOf(activeDoc),
                                     [flags |-> isSuppressed[activeDoc],
                                      success_count |-> 0, failed |-> <<>>],
                                     _pending_timeline_op[1].data.changes)
                result == [success |-> Len(acc.failed) = 0,
                           successCount |-> acc.success_count,
                           failed |-> acc.failed]
            IN  /\ isSuppressed' = [isSuppressed EXCEPT ![activeDoc] = acc.flags]
                /\ IF palette /= "none"
                   THEN /\ sent' = <<Msg("TIMELINE_OPERATION_RESULT", result)>>
                        /\ timelineResults' = timelineResults + 1
                   ELSE /\ sent' = <<>>
                        /\ UNCHANGED timelineResults
    /\ UNCHANGED <<regVars, applyFired, palette, _pending_payload, _pending_apply,
                   _owner_document, documents, activeDoc, userParameters,
                   schemaFile, templateFile, userTemplates, outsideFiles,
                   timelineAccepted>>

(***************************************************************************)
(* The specification.                                                      *)
(***************************************************************************)
\* the add-in is loaded and its toolbar button clicked
OpenStep ==
    \/ \E c \in BOOLEAN : start(c)
    \/ command_execute

LifecycleMessages == {m \in Messages : m.action \in {"ready", "GET_MODEL_STATE", "cancel",
                                                     "response", "unknown"}}
ApplyMessages == {m \in Messages : m.action \in {"APPLY_PARAMS", "GET_MODEL_STATE"}}
TimelineMessages == {m \in Messages : m.action \in {"APPLY_TIMELINE_CHANGES",
                                                    "GET_TIMELINE_ITEMS",
                                                    "GET_TIMELINE_SUMMARY"}}

\* the whole add-in
Next ==
    \/ \E c \in BOOLEAN : run(c)
    \/ stop
    \/ OpenStep
    \/ \E d \in documents : documentActivated(d)
    \/ palette_closed
    \/ \E msg \in Messages : palette_incoming(msg)
    \/ _deferred_apply_handler
    \/ _deferred_timeline_handler

Spec == Init /\ [][Next]_vars

\* loading, unloading, the command and the palette's visibility
NextLifecycle ==
    \/ \E c \in BOOLEAN : run(c)
    \/ stop
    \/ OpenStep
    \/ \E d \in documents : documentActivated(d)
    \/ palette_closed
    \/ \E msg \in LifecycleMessages : palette_incoming(msg)

SpecLifecycle == Init /\ [][NextLifecycle]_vars

\* the deferred parameter apply: every interleaving of messages and deliveries
NextApply ==
    \/ OpenStep
    \/ \E msg \in ApplyMessages : palette_incoming(msg)
    \/ _deferred_apply_handler

SpecApply == Init /\ [][NextApply]_vars

\* the deferred timeline batch: every interleaving of messages and deliveries
NextTimeline ==
    \/ OpenStep
    \/ \E msg \in TimelineMessages : palette_incoming(msg)
    \/ _deferred_timeline_handler

SpecTimeline == Init /\ [][NextTimeline]_vars

TemplateMessages == {m \in Messages : m.action \in {"GET_TEMPLATES", "SAVE_TEMPLATE",
                                                    "DELETE_TEMPLATE", "LOAD_TEMPLATE",
                                                    "OPEN_URL", "OPEN_TEMPLATES_FOLDER"}}

\* the template files: saving, deleting, loading and listing
NextTemplates ==
    \/ OpenStep
    \/ \E msg \in TemplateMessages : palette_incoming(msg)

SpecTemplates == Init /\ [][NextTemplates]_vars

UnloadMessages == {m \in Messages :
                      \/ m.action \in {"ready", "cancel"}
                      \/ /\ m.action = "APPLY_PARAMS"
                         /\ m.data /= BadJSON
                         /\ Len(m.data[1]) = 1
                      \/ /\ m.action = "APPLY_TIMELINE_CHANGES"
                         /\ m.data /= BadJSON
                         /\ Len(m.data[1].changes) = 1}

\* loading and unloading around pending and delivered custom events
NextUnload ==
    \/ \E c \in BOOLEAN : run(c)
    \/ stop
    \/ OpenStep
    \/ \E msg \in UnloadMessages : palette_incoming(msg)
    \/ _deferred_apply_handler
    \/ _deferred_timeline_handler

SpecUnload == Init /\ [][NextUnload]_vars

\* one message of every action and data shape: no data or bad JSON, and one object
\* for each action that carries one
SampleMessages ==
    {m \in Messages : m.data = None}
    \cup {m \in Messages :
             /\ m.data /= None
             /\ \/ m.action = "OPEN_URL"
                \/ m.action = "APPLY_PARAMS" /\ Len(m.data[1]) > 2
                \/ m.action = "APPLY_TIMELINE_CHANGES" /\ Len(m.data[1].changes) = 1
                \/ m.action = "SAVE_TEMPLATE" /\ m.data[1].name = <<"A">>
                \/ m.action = "DELETE_TEMPLATE" /\ m.data[1].id = <<"a">>
                \/ m.action = "LOAD_TEMPLATE" /\ m.data[1] = [id |-> <<"a">>,
                                                             readonly |-> TRUE]}

\* the palette's messages and both deferred handlers, without document switches
NextMessages ==
    \/ OpenStep
    \/ \E msg \in SampleMessages : palette_incoming(msg)
    \/ _deferred_apply_handler
    \/ _deferred_timeline_handler

SpecMessages == Init /\ [][NextMessages]_vars

(***************************************************************************)
(* Properties.                                                             *)
(***************************************************************************)
\* the actions palette_incoming is called with
PaletteActions == {m.action : m \in Messages}

\* C1: no handler run by palette_incoming changes a user-parameter expression or a
\* timeline suppression flag; they change only in _deferred_apply_handler and
\* _deferred_timeline_handler.
C1_NoMutationInPaletteContext ==
    [][/\ handler' \in PaletteActions => UNCHANGED <<userParameters, isSuppressed>>
       /\ (userParameters' /= userParameters \/ isSuppressed' /= isSuppressed) =>
              handler' \in {"_deferred_apply_handler", "_deferred_timeline_handler"}]_vars

\* C1 witness: APPLY_PARAMS has stashed values that differ from the fretboard
\* design's expressions, and the design still has the expressions it started with.
C1_Witness ==
    /\ handler = "APPLY_PARAMS"
    /\ activeDoc = "fretboard"
    /\ _pending_apply /= None
    /\ apply_parameters(schemaFile, userParameters[activeDoc], _pending_apply[1]).params
           /= userParameters[activeDoc]
    /\ userParameters[activeDoc] = InitialParams("fretboard")

\* the position of the object called name in timeline tl, 0 when there is none
PositionOf(tl, name) ==
    IF \E i \in DOMAIN tl : tl[i].name = name
    THEN CHOOSE i \in DOMAIN tl : tl[i].name = name
    ELSE 0

\* a change takes effect when its item is in the timeline and the host accepts the flag
TakesEffect(tl, change) ==
    \E i \in DOMAIN tl : tl[i].name = change.name /\ ~tl[i].rejects

\* the batch a delivery of the timeline event processes: the slot holds an operation
\* and a design is active
BatchRuns ==
    /\ _pending_timeline_op /= None
    /\ IsDesign(activeDoc)
    /\ handler' = "_deferred_timeline_handler"

\* C2: every APPLY_TIMELINE_CHANGES message with a well-formed object is answered by
\* exactly one TIMELINE_OPERATION_RESULT: once no timeline event is left to deliver,
\* as many results were sent as messages were queued.
C2_EveryTimelineMessageAnswered ==
    timelineFired = 0 => timelineResults = timelineAccepted

\* C3: an accepted APPLY_PARAMS payload is not dropped or replaced before it has been
\* applied: it stays in the pending slot until _deferred_apply_handler takes it.
C3_PayloadKeptUntilApplied ==
    [][_pending_apply /= None =>
          \/ _pending_apply' = _pending_apply
          \/ handler' = "_deferred_apply_handler"]_vars

\* C4: the TIMELINE_OPERATION_RESULT of a batch names in 'failed' every change that
\* did not take effect, and successCount counts only the changes that did.
C4_FailedNamesReported ==
    [][BatchRuns /\ sent' /= <<>> =>
          LET tl == TimelineOf(activeDoc)
              changes == _pending_timeline_op[1].data.changes
              result == sent'[1].data
          IN  /\ \A i \in DOMAIN changes :
                    ~TakesEffect(tl, changes[i]) =>
                        \E k \in DOMAIN result.failed : result.failed[k] = changes[i].name
              /\ result.successCount =
                    Cardinality({i \in DOMAIN changes : TakesEffect(tl, changes[i])})]_vars

\* a later entry j of the batch sets the flag of the item at position idx again
LaterEntryTouches(tl, changes, i, idx) ==
    \E j \in (i + 1)..Len(changes) :
        \/ changes[j].name = tl[idx].name
        \/ changes[j].type = "Group" /\ changes[j].name = tl[idx].group

\* C5: a failing change does not stop a timeline batch: every entry of 'changes' is
\* attempted (each is counted in the result), and every entry that can take effect
\* and is not overridden by a later entry leaves its item in the state it requests,
\* whatever happened to the entries before it.
C5_BatchContinuesAfterFailure ==
    [][BatchRuns =>
          LET tl == TimelineOf(activeDoc)
              changes == _pending_timeline_op[1].data.changes
          IN  /\ \A i \in DOMAIN changes :
                    LET idx == PositionOf(tl, changes[i].name)
                    IN  (TakesEffect(tl, changes[i])
                         /\ ~LaterEntryTouches(tl, changes, i, idx))
                        => isSuppressed'[activeDoc][idx] = changes[i].suppressed
              /\ sent' /= <<>> =>
                    sent'[1].data.successCount + Len(sent'[1].data.failed) = Len(changes)]_vars

\* C5 witness: a batch of two was processed whose first entry (L, rejected by the
\* host) failed and whose second entry (group G) was applied.
C5_Witness ==
    /\ handler = "_deferred_timeline_handler"
    /\ activeDoc = "fretboard"
    /\ sent /= <<>>
    /\ sent[1].data.successCount + Len(sent[1].data.failed) = 2
    /\ ~isSuppressed[activeDoc][PositionOf(Timeline, "L")]
    /\ isSuppressed[activeDoc][PositionOf(Timeline, "G")]
    /\ isSuppressed[activeDoc][PositionOf(Timeline, "B")]

\* the names of the schema parameters that are editable
EditableSchemaNames ==
    {n \in {"p1", "p2", "f1"} :
        \E g \in DOMAIN Schema.groups : \E i \in DOMAIN Schema.groups[g].parameters :
            /\ Schema.groups[g].parameters[i].name = n
            /\ Schema.groups[g].parameters[i].editable}

\* the parameters of document d before a step: those of a document the step imports
\* are the template's, with the fingerprint added
ParamsBefore(d) ==
    IF d \in documents THEN userParameters[d]
    ELSE Append(TemplateParams,
                [name |-> FINGERPRINT_PARAM, expression |-> FINGERPRINT_VALUE])

\* C6: apply_parameters changes the expression only of parameters that are editable
\* in the schema and named in param_values; every other design parameter keeps its
\* expression, and no parameter is added or removed.
C6_OnlyEditableNamedParamsChange ==
    [][handler' = "_deferred_apply_handler" =>
          \A d \in documents' :
              LET before == ParamsBefore(d)
                  after == userParameters'[d]
              IN  /\ Len(after) = Len(before)
                  /\ \A i \in DOMAIN before :
                        /\ after[i].name = before[i].name
                        /\ after[i].expression /= before[i].expression =>
                              /\ _pending_apply /= None
                              /\ before[i].name \in EditableSchemaNames
                              /\ \E k \in DOMAIN _pending_apply[1] :
                                    _pending_apply[1][k].name = before[i].name]_vars

\* the expression of parameter name in document d
ExpressionOf(d, name) ==
    LET ps == userParameters[d]
    IN  ps[CHOOSE i \in DOMAIN ps : ps[i].name = name].expression

\* C6 witness: the payload naming f1 (formula-based), x1 (not in the schema) and p1
\* was applied to the fretboard design: p1 took its value, f1 and x1 kept theirs.
C6_Witness ==
    /\ handler = "_deferred_apply_handler"
    /\ activeDoc = "fretboard"
    /\ ExpressionOf("fretboard", "p1") = E3
    /\ ExpressionOf("fretboard", "f1") = Formula
    /\ ExpressionOf("fretboard", "x1") = E1

\* C7: when run(context) returns, the toolbar command, the documentActivated handler
\* and both custom events are registered.
C7_RunRegistersEverything ==
    handler = "run" =>
        /\ commandDefinition
        /\ commandControl
        /\ documentActivatedHandler
        /\ applyEventRegistered
        /\ timelineEventRegistered

\* C8: the payload built for a newly created palette is stashed and not sent; the
\* first 'ready' sends it once as PUSH_MODEL_STATE and clears the slot, a 'ready'
\* with an empty slot sends nothing; for an existing palette the payload is sent at
\* once and the slot is left alone.
C8_PayloadWaitsForReady ==
    [][/\ (handler' = "command_execute" /\ palette = "none" /\ palette' /= "none") =>
              (sent' = <<>> /\ _pending_payload' /= None)
       /\ (handler' = "command_execute" /\ palette /= "none" /\ msgBox' = "none") =>
              /\ Len(sent') = 1
              /\ sent'[1].action = "PUSH_MODEL_STATE"
              /\ _pending_payload' = _pending_payload
       /\ (handler' = "ready" /\ _pending_payload /= None) =>
              /\ sent' = <<[action |-> "PUSH_MODEL_STATE", data |-> _pending_payload[1]]>>
              /\ _pending_payload' = None
       /\ (handler' = "ready" /\ _pending_payload = None) =>
              (sent' = <<>> /\ _pending_payload' = None)
       /\ (handler' /= "ready" /\ handler' /= "command_execute") =>
              _pending_payload' = _pending_payload]_vars

\* C8 witness: 'ready' has just delivered the stashed payload and emptied the slot.
C8_Witness ==
    /\ handler = "ready"
    /\ sent /= <<>>
    /\ sent[1].action = "PUSH_MODEL_STATE"
    /\ _pending_payload = None

\* the design of document d has the FretboardFingerPrint parameter
HasFingerprint(d) ==
    \E i \in DOMAIN userParameters[d] : userParameters[d][i].name = "FretboardFingerPrint"

\* the entries of all groups of a payload
RECURSIVE PayloadEntries(_)
PayloadEntries(groups) ==
    IF groups = <<>> THEN <<>>
    ELSE Head(groups).parameters \o PayloadEntries(Tail(groups))

\* the payload the palette receives in a step: stashed for a new palette, sent else
Delivered == IF palette = "none" THEN _pending_payload'[1] ELSE sent'[1].data

\* C9: command execute with an active design gives the palette a 'live' payload with
\* the design's current expressions exactly when the design has the fingerprint
\* parameter, and an 'initial' payload with the schema defaults otherwise; with no
\* active design or no payload the palette is neither created nor shown.
C9_ExecutePayloadMode ==
    [][handler' = "command_execute" =>
          IF ~IsDesign(activeDoc) \/ ~schemaFile
          THEN palette' = palette /\ sent' = <<>> /\ _pending_payload' = _pending_payload
          ELSE LET entries == PayloadEntries(Delivered.groups)
               IN  /\ palette' = "visible"
                   /\ Delivered.mode = "live" <=> HasFingerprint(activeDoc)
                   /\ Delivered.mode \in {"live", "initial"}
                   /\ Delivered.mode = "live" =>
                         \A i \in DOMAIN entries :
                             /\ entries[i].name \in ParamNames(userParameters[activeDoc])
                             /\ entries[i].expression =
                                    ExpressionOf(activeDoc, entries[i].name)
                   /\ Delivered.mode = "initial" =>
                         /\ {entries[i].name : i \in DOMAIN entries} = EditableSchemaNames
                         /\ \A i \in DOMAIN entries :
                                entries[i].expression = entries[i].default]_vars

\* C9 witness: the command ran on the fretboard design, whose p1 differs from the
\* schema default, and stashed a live payload for the new palette.
C9_Witness ==
    /\ handler = "command_execute"
    /\ activeDoc = "fretboard"
    /\ _pending_payload /= None
    /\ _pending_payload[1].mode = "live"
    /\ \E i \in DOMAIN PayloadEntries(_pending_payload[1].groups) :
          LET e == PayloadEntries(_pending_payload[1].groups)[i]
          IN  e.name = "p1" /\ e.expression /= e.default

\* C10: after the palette was hidden by a switch to another document, activating the
\* owner document again makes it visible.
C10_OwnerActivationShowsPalette ==
    [][(/\ handler = "on_document_activated"
        /\ palette = "hidden"
        /\ _owner_document /= None
        /\ <<activeDoc>> /= _owner_document
        /\ handler' = "on_document_activated"
        /\ <<activeDoc'>> = _owner_document)
       => palette' = "visible"]_vars

IsLastComponentOf(name, id) ==
    /\ \A i \in DOMAIN name : name[i] /= "/"
    /\ \E k \in 0..Len(id) :
          /\ name = SubSeq(id, k + 1, Len(id))
          /\ k > 0 => id[k] = "/"

\* C12: DELETE_TEMPLATE removes at most one file, and only the file '<id>.json'
\* directly inside the user templates folder, whatever separators or '..' the id
\* holds: every file outside that folder, the presets among them, stays, and the
\* other user templates stay as they are.
C12_DeleteStaysInUserFolder ==
    [][\A msg \in TemplateMessages :
          (msg.action = "DELETE_TEMPLATE" /\ palette_incoming(msg)) =>
              /\ outsideFiles' = outsideFiles
              /\ DOMAIN userTemplates' \subseteq DOMAIN userTemplates
              /\ Cardinality(DOMAIN userTemplates \ DOMAIN userTemplates') <= 1
              /\ \A f \in DOMAIN userTemplates' : userTemplates'[f] = userTemplates[f]
              /\ \A f \in DOMAIN userTemplates \ DOMAIN userTemplates' :
                    /\ msg.data /= BadJSON
                    /\ \E name \in {Stem(f)} : IsLastComponentOf(name, msg.data[1].id)]_vars

\* C12 witness: 'a.json' was deleted from the user templates and 'a_2.json', saved
\* while it existed, is still listed; the preset and the neighbouring folder's file
\* are still there.
C12_Witness ==
    /\ handler = "DELETE_TEMPLATE"
    /\ (<<"a">> \o Ext) \notin DOMAIN userTemplates
    /\ (<<"a", "_", "2">> \o Ext) \in DOMAIN userTemplates
    /\ sent /= <<>>
    /\ Len(sent[1].data.userTemplates) = 1
    /\ Len(sent[1].data.presets) = 1
    /\ Cardinality(outsideFiles) = 2

\* C13: after a SAVE_TEMPLATE with a non-blank name whose write succeeded, the
\* PUSH_TEMPLATES message sent in reply lists a user template, not read-only, with
\* the stripped name and the parameters of the message.
C13_SavedTemplateIsListed ==
    [][\A msg \in TemplateMessages :
          (/\ msg.action = "SAVE_TEMPLATE"
           /\ palette_incoming(msg)
           /\ userTemplates' /= userTemplates) =>
              /\ Len(sent') = 1
              /\ sent'[1].action = "PUSH_TEMPLATES"
              /\ \E i \in DOMAIN sent'[1].data.userTemplates :
                    LET t == sent'[1].data.userTemplates[i]
                    IN  /\ t.name = Strip(msg.data[1].name)
                        /\ t.name /= <<>>
                        /\ ~t.readonly
                        /\ t.parameters = msg.data[1].parameters]_vars

\* C13 witness: the template named ' a ' was saved beside one whose file has the
\* same slug, and the reply lists it as 'a' with its two parameters.
C13_Witness ==
    /\ handler = "SAVE_TEMPLATE"
    /\ sent /= <<>>
    /\ Len(sent[1].data.userTemplates) = 2
    /\ \E i \in DOMAIN sent[1].data.userTemplates :
          /\ sent[1].data.userTemplates[i].name = <<"a">>
          /\ sent[1].data.userTemplates[i].id = <<"a", "_", "2">>
          /\ Len(sent[1].data.userTemplates[i].parameters) = 2

\* C14: after suppress_group_with_contents (unsuppress_group_with_contents) has
\* returned True for a group name, the group of that name and every item inside it
\* are suppressed (unsuppressed).  Stated for the call the batch loop makes for the
\* last entry of a batch, whose flags are those the design is left with.
C14_GroupCallSetsGroupAndContents ==
    [][(BatchRuns /\ _pending_timeline_op[1].data.changes /= <<>>) =>
          LET tl == TimelineOf(activeDoc)
              changes == _pending_timeline_op[1].data.changes
              last == changes[Len(changes)]
              before == TimelineBatch(tl, [flags |-> isSuppressed[activeDoc],
                                           success_count |-> 0, failed |-> <<>>],
                                      SubSeq(changes, 1, Len(changes) - 1)).flags
              returned == suppress_group_with_contents(tl, before, last.name,
                                                       last.suppressed).success
          IN  (last.type = "Group" /\ returned) =>
                  \A i \in DOMAIN tl :
                      ((tl[i].isGroup /\ tl[i].name = last.name) \/ tl[i].group = last.name)
                      => isSuppressed'[activeDoc][i] = last.suppressed]_vars

\* the elements of a sequence
Range(seq) == {seq[i] : i \in DOMAIN seq}

\* C15: in the payload of build_ui_payload, 'missing' is exactly the schema parameter
\* names without a user parameter in the design and 'extra' exactly the design's
\* user-parameter names that are not in the schema, the fingerprint excluded.
\* Stated for the payload GET_MODEL_STATE pushes for the active design.
C15_MissingAndExtraAreExact ==
    (handler = "GET_MODEL_STATE" /\ sent /= <<>>) =>
        LET payload == sent[1].data
            design == ParamNames(userParameters[activeDoc])
            schema == {"p1", "f1", "p2"}
        IN  /\ Range(payload.missing) = schema \ design
            /\ Len(payload.missing) = Cardinality(Range(payload.missing))
            /\ Range(payload.extra) = (design \ schema) \ {"FretboardFingerPrint"}
            /\ Len(payload.extra) = Cardinality(Range(payload.extra))

\* the template a LOAD_TEMPLATE object names, None when there is no such file
NamedTemplate(data) ==
    IF data.readonly
    THEN IF (data.id \o Ext) \in DOMAIN PresetTemplates
            /\ (PRESETS_DIR \o <<data.id \o Ext>>) \in outsideFiles
         THEN Some(PresetTemplates[data.id \o Ext]) ELSE None
    ELSE IF (data.id \o Ext) \in DOMAIN userTemplates
         THEN Some(userTemplates[data.id \o Ext]) ELSE None

\* C16: LOAD_TEMPLATE for an existing template pushes one PUSH_MODEL_STATE payload of
\* mode 'template' that holds every editable schema parameter exactly once, with the
\* template's value for its name when the template has one and the schema default
\* otherwise; formula-based parameters and names outside the schema do not appear.
C16_LoadTemplatePayload ==
    [][\A msg \in TemplateMessages :
          (/\ msg.action = "LOAD_TEMPLATE"
           /\ palette_incoming(msg)
           /\ msg.data /= BadJSON
           /\ NamedTemplate(msg.data[1]) /= None) =>
              /\ Len(sent') = 1
              /\ sent'[1].action = "PUSH_MODEL_STATE"
              /\ sent'[1].data.mode = "template"
              /\ LET entries == PayloadEntries(sent'[1].data.groups)
                     values == NamedTemplate(msg.data[1])[1].parameters
                 IN  /\ {entries[i].name : i \in DOMAIN entries} = {"p1", "p2"}
                     /\ Len(entries) = 2
                     /\ \A i \in DOMAIN entries :
                           IF \E k \in DOMAIN values : values[k].name = entries[i].name
                           THEN \E k \in DOMAIN values :
                                   /\ values[k].name = entries[i].name
                                   /\ values[k].expression = entries[i].expression
                           ELSE entries[i].expression =
                                   (IF entries[i].name = "p1" THEN E1 ELSE E2)]_vars

\* C16 witness: the preset, which holds p1, a name outside the schema and the
\* formula-based f1, was loaded: p1 has the preset's value and p2 its default.
C16_Witness ==
    /\ handler = "LOAD_TEMPLATE"
    /\ sent /= <<>>
    /\ sent[1].data.mode = "template"
    /\ sent[1].data.templateName = <<"P">>
    /\ LET entries == PayloadEntries(sent[1].data.groups)
       IN  /\ \E i \in DOMAIN entries : entries[i].name = "p1" /\ entries[i].expression = E3
           /\ \E i \in DOMAIN entries : entries[i].name = "p2" /\ entries[i].expression = E2

\* C17: when stop(context) has returned, the toolbar control, the command definition
\* and the palette no longer exist and both custom events are unregistered, whatever
\* commands and messages came before; while the add-in is unloaded no deferred
\* handler runs.
C17_StopRemovesEverything ==
    [][/\ handler' = "stop" =>
              /\ ~commandControl'
              /\ ~commandDefinition'
              /\ palette' = "none"
              /\ ~applyEventRegistered'
              /\ ~timelineEventRegistered'
       /\ ~addinRunning =>
              handler' \notin {"_deferred_apply_handler", "_deferred_timeline_handler"}]_vars

\* C17 witness: the add-in was stopped while a parameter payload and a timeline
\* operation were waiting for their events.
C17_Witness ==
    /\ handler = "stop"
    /\ _pending_apply /= None
    /\ _pending_timeline_op /= None

\* C18: a load with context.isApplicationStartup true shows no welcome message box,
\* a load with it false shows exactly one.
C18_WelcomeOnlyOnManualRun ==
    [][\A isApplicationStartup \in BOOLEAN :
          run(isApplicationStartup) => (msgBox' = "welcome" <=> ~isApplicationStartup)]_vars

\* the expression the payload asks for parameter name, None when it asks for none
\* that the host would take
Requested(param_values, name) ==
    IF \E k \in DOMAIN param_values :
          /\ param_values[k].name = name
          /\ Strip(param_values[k].expression) \notin {<<>>, BadExpr}
    THEN LET k == CHOOSE k \in DOMAIN param_values :
                     /\ param_values[k].name = name
                     /\ Strip(param_values[k].expression) \notin {<<>>, BadExpr}
         IN  Some(Strip(param_values[k].expression))
    ELSE None

\* the deferred apply runs on a design without user parameters, the template exists
FirstApplyRuns ==
    /\ handler' = "_deferred_apply_handler"
    /\ _pending_apply /= None
    /\ IsDesign(activeDoc)
    /\ userParameters[activeDoc] = <<>>
    /\ templateFile

FirstApplyWithoutTemplate ==
    /\ handler' = "_deferred_apply_handler"
    /\ _pending_apply /= None
    /\ IsDesign(activeDoc)
    /\ userParameters[activeDoc] = <<>>
    /\ ~templateFile

\* C20: if the template file is missing when the first apply runs, a message box
\* reports it and nothing else happens: no document is created, no parameter is
\* changed or added, the pending apply slot is empty afterwards and nothing is sent
\* to the palette.
C20_MissingTemplateOnlyReports ==
    [][FirstApplyWithoutTemplate =>
          /\ msgBox' = "template_missing"
          /\ documents' = documents
          /\ activeDoc' = activeDoc
          /\ userParameters' = userParameters
          /\ _owner_document' = _owner_document
          /\ palette' = palette
          /\ _pending_apply' = None
          /\ sent' = <<>>]_vars

\* C20 witness: the first apply ran on the blank design with the template missing and
\* reported it; the design still has no parameters and no document was added.
C20_Witness ==
    /\ handler = "_deferred_apply_handler"
    /\ msgBox = "template_missing"
    /\ ~templateFile
    /\ _pending_apply = None
    /\ Imported = {}
    /\ userParameters[activeDoc] = <<>>
    /\ sent = <<>>

\* the deferred apply reaches apply_parameters
ApplyRuns ==
    /\ handler' = "_deferred_apply_handler"
    /\ applyResult' /= None

\* the number of messages in errors that name the parameter
ErrorsNaming(errors, name) ==
    Cardinality({k \in DOMAIN errors : errors[k][2] = name})

\* the name is an editable parameter of the schema apply_parameters loaded
IsEditable(name) == schemaFile /\ name \in EditableSchemaNames

\* what one entry e of param_values did to the design (before -> after) and to
\* errors; reported tells whether a name missing from the design gets a message
EntryOutcome(before, after, errors, e, reported) ==
    LET new == Strip(e.expression)
        idx == itemByName(before, e.name)
        named == ErrorsNaming(errors, e.name)
    IN  /\ (new = <<>> \/ (idx /= 0 /\ new = before[idx].expression)) =>
              /\ named = 0
              /\ idx /= 0 => after[idx] = before[idx]
        /\ (new /= <<>> /\ idx = 0 /\ reported) => named = 1
        /\ (new /= <<>> /\ idx /= 0 /\ IsEditable(e.name)
               /\ new /= before[idx].expression) =>
              IF new = BadExpr
              THEN named = 1 /\ after[idx] = before[idx]
              ELSE named = 0 /\ after[idx].expression = new

\* 'updated' is the number of parameters whose expression was set
UpdatedCountsChanges(before, after, updated) ==
    updated = Cardinality({i \in DOMAIN before :
                              after[i].expression /= before[i].expression})

\* C21 as stated: every entry of param_values is processed on its own: a blank
\* expression or one equal to the current expression is skipped, every name missing
\* from the design and every rejected assignment adds one message naming the
\* parameter, later entries still run, and 'updated' counts the expressions set.
C21_EveryMissingNameReported ==
    [][ApplyRuns =>
          LET before == ParamsBefore(activeDoc')
              after == userParameters'[activeDoc']
              result == applyResult'[1]
          IN  /\ \A k \in DOMAIN _pending_apply[1] :
                    EntryOutcome(before, after, result.errors, _pending_apply[1][k], TRUE)
              /\ UpdatedCountsChanges(before, after, result.updated)]_vars

\* C21 amended: as above, but a name missing from the design adds its message only
\* when it is an editable parameter of the loaded schema; an entry naming any other
\* parameter adds no message.
C21_EditableMissingNameReported ==
    [][ApplyRuns =>
          LET before == ParamsBefore(activeDoc')
              after == userParameters'[activeDoc']
              result == applyResult'[1]
          IN  /\ \A k \in DOMAIN _pending_apply[1] :
                    LET e == _pending_apply[1][k]
                    IN  /\ EntryOutcome(before, after, result.errors, e,
                                        IsEditable(e.name))
                        /\ ~IsEditable(e.name) => ErrorsNaming(result.errors, e.name) = 0
              /\ UpdatedCountsChanges(before, after, result.updated)]_vars

\* C21 witness: the payload naming f1, x1, p2 and p1 was applied to the fretboard
\* design, which has no p2: one message names p2, and p1, the entry after it, was set.
C21_Witness ==
    /\ handler = "_deferred_apply_handler"
    /\ activeDoc = "fretboard"
    /\ applyResult /= None
    /\ applyResult[1].updated = 1
    /\ ErrorsNaming(applyResult[1].errors, "p2") = 1
    /\ ExpressionOf("fretboard", "p1") = E3

\* C22: an APPLY_PARAMS or APPLY_TIMELINE_CHANGES message whose data is not valid
\* JSON leaves both pending slots as they were, fires no custom event, sends nothing
\* to the palette and changes nothing in the host.
C22_UnparsedDataHasNoEffect ==
    [][\A msg \in Messages :
          (/\ msg.action \in {"APPLY_PARAMS", "APPLY_TIMELINE_CHANGES"}
           /\ msg.data = BadJSON
           /\ palette_incoming(msg)) =>
              /\ _pending_apply' = _pending_apply
              /\ _pending_timeline_op' = _pending_timeline_op
              /\ _pending_payload' = _pending_payload
              /\ applyFired' = applyFired
              /\ timelineFired' = timelineFired
              /\ sent' = <<>>
              /\ msgBox' = "none"
              /\ palette' = palette
              /\ UNCHANGED hostVars]_vars

\* C22 witness: with a payload and a timeline operation waiting for their events, an
\* APPLY_PARAMS message arrived that sent no COMPUTING, i.e. one that did not parse;
\* both slots still hold their content and both events are still to be delivered.
C22_Witness ==
    /\ handler = "APPLY_PARAMS"
    /\ palette /= "none"
    /\ sent = <<>>
    /\ _pending_apply /= None
    /\ _pending_timeline_op /= None
    /\ applyFired = 1
    /\ timelineFired = 1

\* '<slug>_<n>.json'
Numbered(slug, n) == slug \o <<"_">> \o Str(n) \o Ext

\* C23: SAVE_TEMPLATE never overwrites a user template file that stores a different
\* name: when the file of the computed slug exists with another name the template goes
\* to '<slug>_<n>.json' for the smallest n >= 2 whose file does not exist; when that
\* file stores the same name it is replaced in place.
C23_SaveNeverOverwritesAnotherName ==
    [][\A msg \in TemplateMessages :
          (/\ msg.action = "SAVE_TEMPLATE"
           /\ msg.data /= BadJSON
           /\ palette_incoming(msg)) =>
              LET name == Strip(msg.data[1].name)
                  slug == Slugify(name)
                  files == DOMAIN userTemplates
                  written == userTemplates' /= userTemplates
                  template == [name |-> name, parameters |-> msg.data[1].parameters]
              IN  /\ files \subseteq DOMAIN userTemplates'
                  /\ \A f \in files :
                        userTemplates'[f] /= userTemplates[f] =>
                            userTemplates[f].name = name
                  /\ (written /\ (slug \o Ext) \in files
                              /\ userTemplates[slug \o Ext].name /= name) =>
                        \E n \in 2..(MaxUserTemplates + 1) :
                            /\ Numbered(slug, n) \notin files
                            /\ \A m \in 2..(n - 1) : Numbered(slug, m) \in files
                            /\ DOMAIN userTemplates' = files \cup {Numbered(slug, n)}
                            /\ userTemplates'[Numbered(slug, n)] = template
                  /\ (written /\ (slug \o Ext) \in files
                              /\ userTemplates[slug \o Ext].name = name) =>
                        /\ DOMAIN userTemplates' = files
                        /\ userTemplates'[slug \o Ext] = template]_vars

\* C23 witness: three templates of different names and the same slug were saved; the
\* third went to a_3.json, the first two files still store their names.
C23_Witness ==
    /\ handler = "SAVE_TEMPLATE"
    /\ DOMAIN userTemplates = {<<"a">> \o Ext, Numbered(<<"a">>, 2), Numbered(<<"a">>, 3)}
    /\ userTemplates[<<"a">> \o Ext].name = <<"A">>
    /\ userTemplates[Numbered(<<"a">>, 2)].name = <<"a">>
    /\ userTemplates[Numbered(<<"a">>, 3)].name = <<"a", "!">>

\* the step showed something to the user or changed something in the host
StepHasEffect == sent' /= <<>> \/ msgBox' /= "none" \/ hostVars' /= hostVars

\* C24: each deferred handler leaves its pending slot empty, whatever it held; a slot
\* is filled only by its message, so what was stashed is applied at most once (a
\* handler step with an effect took a filled slot and emptied it, and no more timeline
\* results are sent than operations were queued); a delivery with the slot empty
\* changes nothing in the host and sends nothing to the palette.
C24_SlotEmptiedAndAppliedOnce ==
    [][/\ handler' = "_deferred_apply_handler" =>
             /\ _pending_apply' = None
             /\ StepHasEffect => _pending_apply /= None
             /\ _pending_apply = None =>
                   /\ UNCHANGED <<hostVars, palette, _owner_document>>
                   /\ sent' = <<>>
                   /\ applyResult' = None
       /\ handler' = "_deferred_timeline_handler" =>
             /\ _pending_timeline_op' = None
             /\ StepHasEffect => _pending_timeline_op /= None
             /\ _pending_timeline_op = None =>
                   /\ UNCHANGED <<hostVars, palette, _owner_document>>
                   /\ sent' = <<>>
       /\ (_pending_apply = None /\ _pending_apply' /= None) => handler' = "APPLY_PARAMS"
       /\ (_pending_timeline_op = None /\ _pending_timeline_op' /= None) =>
             handler' = "APPLY_TIMELINE_CHANGES"
       /\ timelineResults' <= timelineAccepted']_vars

\* C24 witness: two operations were queued and both events delivered; the last
\* delivery found the slot empty on a design with a timeline and sent nothing, so
\* one result was sent for the two deliveries.
C24_Witness ==
    /\ handler = "_deferred_timeline_handler"
    /\ activeDoc = "fretboard"
    /\ palette /= "none"
    /\ sent = <<>>
    /\ timelineFired = 0
    /\ timelineAccepted = 2
    /\ timelineResults = 1

====
